---- MODULE Spec2Model ----
(***************************************************************************)
(* The asynchronous research workflow engine of the Chat agent             *)
(* (src/src/server.ts): createResearchWorkflow, updateWorkflow,            *)
(* executeResearch and postResearchToLinear, together with the tool that   *)
(* starts a workflow (researchRepository.execute).                         *)
(*                                                                         *)
(* JavaScript runs a handler to completion between two awaits, so one      *)
(* action of the model is one such segment of a handler: from the          *)
(* resolution of the await the handler is suspended on to its next await   *)
(* (or its return).  Runs of different workflows interleave at awaits.     *)
(***************************************************************************)
EXTENDS Integers, Sequences, FiniteSets, TLC

\* ---------------------------------------------------------------- values

\* SQL NULL / JavaScript null
NULL == "NULL"

\* a field left out of the `updates` object of updateWorkflow
UNDEFINED == "undefined"

\* ids handed out by generateId(), in the order they are handed out
IdPool == <<"w1", "w2">>

WorkflowIds == {IdPool[k] : k \in 1..Len(IdPool)}

\* inputs of the researchRepository tool; executeResearch branches on none of
\* repository, question and depth, so one value of each is drawn
Repositories == {"owner/repo"}

Questions == {"How is auth handled?"}

Depths == {"medium"}

\* linearTaskId: left out, the empty string, or an issue id
TaskIds == {NULL, "", "ABC-123"}

\* texts the model completion can resolve to, named by their length
Responses == {"text0", "text49", "text50"}

Length(text) ==
    CASE text = "text0" -> 0
      [] text = "text49" -> 49
      [] text = "text50" -> 50

\* the capability-provider registry: one entry per server name.  Of the five
\* server states the code only tells "ready" from the others; two of the
\* others are kept so that the state named in an error message can differ.
\* A poll reads whatever the registry holds then: each poll draws a snapshot.
ServerNames == {"GitHub", "Linear"}

ServerStates == {"connecting", "ready", "failed"}

Registries == [ServerNames -> ServerStates \cup {"absent"}]

\* what this.mcp.getAITools() gives the tracker-post path
ToolSets == {"throws", "noCommentTool", "noExecute", "commentTool"}

MAX_RETRIES == 30

LINEAR_MAX_RETRIES == 15

MIN_RESPONSE_LENGTH == 50

\* how often the scheduler may deliver one scheduled job (SpecRedeliver)
MaxDeliveries == 2

Terminal == {"completed", "failed"}

\* ----------------------------------------------------------------- state

VARIABLES
    workflows,   \* research_workflows table: a function from the ids inserted to rows
    scheduled,   \* id -> number of schedule(0, "executeResearch", id) calls
    delivered,   \* id -> number of times the scheduler invoked executeResearch(id)
    run,         \* id -> the frame of executeResearch(id): pc and locals
    messages,    \* this.messages, the conversation transcript
    appended,    \* id -> kinds of the entries the runs of id wrote to the transcript
    comments,    \* id -> number of commentTool.execute calls made for id
    tracker,     \* id -> how postResearchToLinear ended for id
    polls,       \* id -> what the readiness loop of the run of id observed
    tool,        \* the frame of one researchRepository.execute call of tools.ts
    call         \* one call of a helper of tools.ts: its arguments and its result

vars == <<workflows, scheduled, delivered, run, messages, appended, comments,
          tracker, polls, tool, call>>

IdleFrame == [pc |-> "idle", i |-> 0, li |-> 0, taskId |-> NULL, arg |-> <<>>]

\* polled: the run polled the registry; allEmpty: every poll saw no server;
\* exit: how the readiness loop was left; github, anyReady: the state of the
\* server named GitHub, and whether any server was ready, in the snapshot the
\* loop was left on; empty: that snapshot held no server; tools: whether
\* getAITools() was called in that iteration and threw; linear: the state of
\* the server named Linear in the snapshot the loop of postResearchToLinear
\* was left on; trace: tools is kept for the iterations that end in a sleep
\* too
NoPolls == [polled |-> FALSE, allEmpty |-> TRUE, exit |-> "none",
            github |-> "none", anyReady |-> FALSE, empty |-> FALSE,
            tools |-> "none", linear |-> "none", trace |-> FALSE]

InitEngine ==
    /\ workflows = <<>>
    /\ scheduled = [w \in WorkflowIds |-> 0]
    /\ delivered = [w \in WorkflowIds |-> 0]
    /\ run = [w \in WorkflowIds |-> IdleFrame]
    /\ messages = <<>>
    /\ appended = [w \in WorkflowIds |-> <<>>]
    /\ comments = [w \in WorkflowIds |-> 0]
    /\ tracker = [w \in WorkflowIds |-> "none"]
    /\ polls = [w \in WorkflowIds |-> NoPolls]

\* no helper of tools.ts is being called
NoCall == [fn |-> "none", args |-> <<>>, result |-> <<>>, returned |-> FALSE]

\* researchRepository.execute of tools.ts is not running.  elapsed is
\* Date.now() - startTime as the loop last read it; ready, the names of the
\* servers the last poll found ready; units, the exploreSubQuestion calls;
\* synthesized, the number of synthesizeResearch calls; result, the value
\* returned
NoTool ==
    [pc |-> "idle", repository |-> "", question |-> <<>>, depth |-> "",
     elapsed |-> 0, mcpReady |-> FALSE, ready |-> {}, tools |-> "none",
     units |-> <<>>, finished |-> <<>>, synthesized |-> 0, result |-> [pending |-> TRUE]]

Init ==
    /\ InitEngine
    /\ tool = NoTool
    /\ call = NoCall

\* ------------------------------------------------------ the workflow store

\* server.ts 732-735: the row INSERTed by createResearchWorkflow
NewRow(workflowId, repository, question, depth, taskId) ==
    [id |-> workflowId, status |-> "pending", repository |-> repository,
     question |-> question, depth |-> depth, task_id |-> taskId,
     results |-> NULL, error |-> NULL]

\* an INSERT that leaves only the new row in the table
InsertDroppingRows(table, row) ==
    [w \in {row.id} |-> row]

\* server.ts 729-736: INSERT INTO research_workflows
Insert(table, row) ==
    [w \in DOMAIN table \cup {row.id} |-> IF w = row.id THEN row ELSE table[w]]

\* server.ts 744-759: rows[0] || null is modelled by membership in the domain
HasWorkflow(table, workflowId) == workflowId \in DOMAIN table

\* updateWorkflow without its status-and-error branch: a failure is not written
updateWorkflowNoErrorBranch(table, workflowId, updates) ==
    IF ~HasWorkflow(table, workflowId) THEN table
    ELSE IF updates.status # UNDEFINED /\ updates.results # UNDEFINED
    THEN [table EXCEPT ![workflowId].status = updates.status,
                       ![workflowId].results = updates.results]
    ELSE IF updates.status # UNDEFINED /\ updates.error # UNDEFINED
    THEN table
    ELSE IF updates.status # UNDEFINED
    THEN [table EXCEPT ![workflowId].status = updates.status]
    ELSE table

\* server.ts 764-794: the three UPDATE statements; an UPDATE of a missing row
\* changes nothing
updateWorkflow(table, workflowId, updates) ==
    IF ~HasWorkflow(table, workflowId) THEN table
    ELSE IF updates.status # UNDEFINED /\ updates.results # UNDEFINED
    THEN [table EXCEPT ![workflowId].status = updates.status,
                       ![workflowId].results = updates.results]
    ELSE IF updates.status # UNDEFINED /\ updates.error # UNDEFINED
    THEN [table EXCEPT ![workflowId].status = updates.status,
                       ![workflowId].error = updates.error]
    ELSE IF updates.status # UNDEFINED
    THEN [table EXCEPT ![workflowId].status = updates.status]
    ELSE table

StatusOnly(status) ==
    [status |-> status, results |-> UNDEFINED, error |-> UNDEFINED]

StatusResults(status, results) ==
    [status |-> status, results |-> results, error |-> UNDEFINED]

StatusError(status, error) ==
    [status |-> status, results |-> UNDEFINED, error |-> error]

\* ------------------------------------------------------------- transcript

\* server.ts 1635-1648: the assistant entry carrying the results
ResultsEntry(workflowId, fullResponse) ==
    [role |-> "assistant", workflowId |-> workflowId, isError |-> FALSE,
     text |-> fullResponse]

\* server.ts 1672-1686: the assistant entry carrying the error
ErrorEntry(workflowId, errorMessage) ==
    [role |-> "assistant", workflowId |-> workflowId, isError |-> TRUE,
     text |-> errorMessage]

\* ------------------------------------------------------------- create

\* generateId(): the first id of the pool that was not handed out yet
generateId ==
    IdPool[CHOOSE k \in 1..Len(IdPool) :
               /\ IdPool[k] \notin DOMAIN workflows
               /\ \A j \in 1..(k - 1) : IdPool[j] \in DOMAIN workflows]

\* createResearchWorkflow scheduling the execution without the INSERT
createResearchWorkflowNoInsert(workflowId, repository, question, depth, taskId) ==
    /\ scheduled' = [scheduled EXCEPT ![workflowId] = @ + 1]
    /\ UNCHANGED <<call, tool>>
    /\ UNCHANGED <<workflows, delivered, run, messages, appended, comments,
                   tracker, polls>>

\* server.ts 721-739: INSERT the pending row, then schedule the execution
createResearchWorkflow(workflowId, repository, question, depth, taskId) ==
    /\ workflows' = Insert(workflows,
                           NewRow(workflowId, repository, question, depth, taskId))
    /\ scheduled' = [scheduled EXCEPT ![workflowId] = @ + 1]
    /\ UNCHANGED <<delivered, run, messages, appended, comments, tracker, polls>>
    /\ UNCHANGED <<call, tool>>

\* part_001 141-189: the tool resolves the repository, draws a fresh id and
\* creates the workflow
researchRepository ==
    /\ DOMAIN workflows # WorkflowIds
    /\ \E repository \in Repositories, question \in Questions,
          depth \in Depths, linearTaskId \in TaskIds :
           createResearchWorkflow(generateId, repository, question, depth,
                                  linearTaskId)

\* ------------------------------------------------------- executeResearch

Frame(workflowId) == run[workflowId]

\* the frame of a run that returned, or whose promise rejected
Finished == {"done", "notFound", "rejected"}

\* the catch block calling saveMessages without persisting the failure first
CatchBlockSaveOnly(workflowId, transcript, errorMessage) ==
    /\ UNCHANGED workflows
    /\ run' = [run EXCEPT ![workflowId].pc = "saveError",
                          ![workflowId].i = 0,
                          ![workflowId].arg =
                              Append(transcript, ErrorEntry(workflowId, errorMessage))]
    /\ messages' = transcript

\* server.ts 1657-1687, up to the await: the catch block persists the failure
\* and calls saveMessages with the transcript it reads then plus the error
\* entry.  `transcript` is this.messages as the block finds it.
CatchBlock(workflowId, transcript, errorMessage) ==
    /\ workflows' = updateWorkflow(workflows, workflowId,
                                   StatusError("failed", errorMessage))
    /\ run' = [run EXCEPT ![workflowId].pc = "saveError",
                          ![workflowId].i = 0,
                          ![workflowId].arg =
                              Append(transcript, ErrorEntry(workflowId, errorMessage))]
    /\ messages' = transcript

\* the not-ready error without the state last observed
NotReadyErrorWithoutState(state) ==
    "GitHub MCP server not ready after " \o ToString(MAX_RETRIES) \o " attempts."

\* server.ts 1519-1521: GitHub MCP server not ready after 30 attempts.
\* Current state: ${githubServer.state}
NotReadyError(state) ==
    "GitHub MCP server not ready after " \o ToString(MAX_RETRIES)
        \o " attempts. Current state: " \o state

\* the readiness loop retrying once more than its budget (i < MAX_RETRIES)
ReadinessIterationOffByOne(i, servers, toolsThrow) ==
    LET retry == IF i < MAX_RETRIES THEN "sleep" ELSE "throw" IN
    IF \A name \in ServerNames : servers[name] = "absent"
    THEN [kind |-> retry, error |-> "No MCP servers available"]
    ELSE IF servers["GitHub"] = "absent"
    THEN [kind |-> retry, error |-> "GitHub MCP server not connected"]
    ELSE IF servers["GitHub"] # "ready"
    THEN [kind |-> retry, error |-> NotReadyError(servers["GitHub"])]
    ELSE IF ~toolsThrow
    THEN [kind |-> "break", error |-> NULL]
    ELSE [kind |-> retry, error |-> "Failed to get MCP tools"]

\* server.ts 1464-1543: one iteration of the readiness loop on the registry
\* snapshot `servers`; toolsThrow says whether getAITools() throws
ReadinessIteration(i, servers, toolsThrow) ==
    LET retry == IF i < MAX_RETRIES - 1 THEN "sleep" ELSE "throw" IN
    IF \A name \in ServerNames : servers[name] = "absent"
    THEN [kind |-> retry, error |-> "No MCP servers available"]
    ELSE IF servers["GitHub"] = "absent"
    THEN [kind |-> retry, error |-> "GitHub MCP server not connected"]
    ELSE IF servers["GitHub"] # "ready"
    THEN [kind |-> retry, error |-> NotReadyError(servers["GitHub"])]
    ELSE IF ~toolsThrow
    THEN [kind |-> "break", error |-> NULL]
    ELSE [kind |-> retry, error |-> "Failed to get MCP tools"]

Polled(workflowId, servers, toolsThrow, kind) ==
    [polls EXCEPT ![workflowId] =
        [polled |-> TRUE,
         allEmpty |-> @.allEmpty /\ \A name \in ServerNames : servers[name] = "absent",
         exit |-> IF kind = "sleep" THEN "none" ELSE kind,
         github |-> IF kind = "sleep" THEN "none" ELSE servers["GitHub"],
         anyReady |-> /\ kind # "sleep"
                      /\ \E name \in ServerNames : servers[name] = "ready",
         empty |-> /\ kind # "sleep"
                   /\ \A name \in ServerNames : servers[name] = "absent",
         tools |-> IF servers["GitHub"] # "ready" THEN "none"
                   ELSE IF kind = "sleep" /\ ~@.trace THEN "none"
                   ELSE IF toolsThrow THEN "threw" ELSE "obtained",
         linear |-> "none",
         trace |-> @.trace]]

\* the readiness loop ending without a throw when its budget is spent
ReadinessStepFallsThrough(workflowId, i) ==
    \E servers \in Registries, toolsThrow \in BOOLEAN :
        LET outcome == ReadinessIteration(i, servers, toolsThrow) IN
        /\ polls' = Polled(workflowId, servers, toolsThrow, outcome.kind)
        /\ UNCHANGED <<scheduled, delivered, appended, comments, tracker>>
        /\ CASE outcome.kind = "sleep" ->
                  /\ run' = [run EXCEPT ![workflowId].pc = "retryDelay",
                                        ![workflowId].i = i]
                  /\ UNCHANGED <<workflows, messages>>
             [] outcome.kind \in {"throw", "break"} ->
                  /\ run' = [run EXCEPT ![workflowId].pc = "streamText",
                                        ![workflowId].i = 0]
                  /\ UNCHANGED <<workflows, messages>>

\* server.ts 1463-1613: the loop body at index i, and what follows its exit up
\* to the next await: the retry delay, the catch block, or the completion call.
\* i is scoped to the loop and is gone once the loop is left.
ReadinessStep(workflowId, i) ==
    \E servers \in Registries, toolsThrow \in BOOLEAN :
        LET outcome == ReadinessIteration(i, servers, toolsThrow) IN
        /\ polls' = Polled(workflowId, servers, toolsThrow, outcome.kind)
        /\ UNCHANGED <<scheduled, delivered, appended, comments, tracker>>
        /\ CASE outcome.kind = "sleep" ->
                  /\ run' = [run EXCEPT ![workflowId].pc = "retryDelay",
                                        ![workflowId].i = i]
                  /\ UNCHANGED <<workflows, messages>>
             [] outcome.kind = "throw" ->
                  CatchBlock(workflowId, messages, outcome.error)
             [] outcome.kind = "break" ->
                  /\ run' = [run EXCEPT ![workflowId].pc = "streamText",
                                        ![workflowId].i = 0]
                  /\ UNCHANGED <<workflows, messages>>

\* executeResearch marking every row in_progress (an UPDATE without WHERE)
InvokeMarksAll(workflowId) ==
    /\ delivered' = [delivered EXCEPT ![workflowId] = @ + 1]
    /\ polls' = [polls EXCEPT ![workflowId] =
                    [NoPolls EXCEPT !.trace = polls[workflowId].trace]]
    /\ tracker' = [tracker EXCEPT ![workflowId] = "none"]
    /\ UNCHANGED <<scheduled, messages, appended, comments>>
    /\ IF ~HasWorkflow(workflows, workflowId)
       THEN /\ run' = [run EXCEPT ![workflowId] = [IdleFrame EXCEPT !.pc = "notFound"]]
            /\ UNCHANGED workflows
       ELSE /\ workflows' = [w \in DOMAIN workflows |->
                               [workflows[w] EXCEPT !.status = "in_progress"]]
            /\ run' = [run EXCEPT ![workflowId] =
                          [IdleFrame EXCEPT !.pc = "ensureJsonSchema",
                                            !.taskId = workflows[workflowId].task_id]]

\* server.ts 1426-1459: the scheduler invokes executeResearch(workflowId); the
\* handler reads the row, marks it in_progress and awaits ensureJsonSchema()
\* (the build is taken to have this.mcp.ensureJsonSchema, as the comment at
\* 1456-1457 expects)
Invoke(workflowId) ==
    /\ delivered' = [delivered EXCEPT ![workflowId] = @ + 1]
    /\ polls' = [polls EXCEPT ![workflowId] =
                    [NoPolls EXCEPT !.trace = polls[workflowId].trace]]
    /\ tracker' = [tracker EXCEPT ![workflowId] = "none"]
    /\ UNCHANGED <<scheduled, messages, appended, comments>>
    /\ IF ~HasWorkflow(workflows, workflowId)
       THEN /\ run' = [run EXCEPT ![workflowId] = [IdleFrame EXCEPT !.pc = "notFound"]]
            /\ UNCHANGED workflows
       ELSE /\ workflows' = updateWorkflow(workflows, workflowId,
                                           StatusOnly("in_progress"))
            /\ run' = [run EXCEPT ![workflowId] =
                          [IdleFrame EXCEPT !.pc = "ensureJsonSchema",
                                            !.taskId = workflows[workflowId].task_id]]

\* the job that schedule(0, "executeResearch", id) queued fires, once
executeResearch(workflowId) ==
    /\ Frame(workflowId).pc = "idle"
    /\ UNCHANGED <<call, tool>>
    /\ delivered[workflowId] < scheduled[workflowId]
    /\ Invoke(workflowId)

\* server.ts 1458-1463: ensureJsonSchema() resolved; the loop starts at i = 0
ensureJsonSchemaReturns(workflowId) ==
    /\ Frame(workflowId).pc = "ensureJsonSchema"
    /\ UNCHANGED <<call, tool>>
    /\ ReadinessStep(workflowId, 0)

\* server.ts 1459, 1657: ensureJsonSchema() rejected inside the try block
ensureJsonSchemaThrows(workflowId) ==
    /\ Frame(workflowId).pc = "ensureJsonSchema"
    /\ UNCHANGED <<call, tool>>
    /\ CatchBlock(workflowId, messages, "ensureJsonSchema failed")
    /\ UNCHANGED <<scheduled, delivered, appended, comments, tracker, polls>>

\* server.ts 1474, 1502, 1516, 1537: the RETRY_DELAY timer fired; `continue`
\* increments i and runs the next iteration
retryDelayElapsed(workflowId) ==
    /\ Frame(workflowId).pc = "retryDelay"
    /\ UNCHANGED <<call, tool>>
    /\ ReadinessStep(workflowId, Frame(workflowId).i + 1)

\* the length test rejecting a response of exactly MIN_RESPONSE_LENGTH
InsufficientResultsOffByOne(fullResponse) ==
    Length(fullResponse) = 0 \/ Length(fullResponse) <= MIN_RESPONSE_LENGTH

\* server.ts 1620: !fullResponse || fullResponse.length < 50
InsufficientResults(fullResponse) ==
    Length(fullResponse) = 0 \/ Length(fullResponse) < MIN_RESPONSE_LENGTH

\* server.ts 1612-1649: result.text resolved with fullResponse: a text too
\* short throws, otherwise the results are persisted and the results entry is
\* handed to saveMessages
streamTextReturns(workflowId) ==
    /\ Frame(workflowId).pc = "streamText"
    /\ UNCHANGED <<call, tool>>
    /\ UNCHANGED <<scheduled, delivered, appended, comments, tracker, polls>>
    /\ \E fullResponse \in Responses :
        IF InsufficientResults(fullResponse)
        THEN CatchBlock(workflowId, messages,
                        "Research produced insufficient results: " \o fullResponse)
        ELSE /\ workflows' = updateWorkflow(workflows, workflowId,
                                            StatusResults("completed", fullResponse))
             /\ run' = [run EXCEPT ![workflowId].pc = "saveResults",
                                   ![workflowId].arg =
                                       Append(messages,
                                              ResultsEntry(workflowId, fullResponse))]
             /\ UNCHANGED messages

\* server.ts 1595-1613, 1657: streamText or result.text / result.steps threw
streamTextThrows(workflowId) ==
    /\ Frame(workflowId).pc = "streamText"
    /\ UNCHANGED <<call, tool>>
    /\ CatchBlock(workflowId, messages, "AI completion failed")
    /\ UNCHANGED <<scheduled, delivered, appended, comments, tracker, polls>>

\* --------------------------------------------------- postResearchToLinear

\* the tracker loop giving up one iteration late
LinearIterationOffByOne(i, servers) ==
    IF servers["Linear"] = "ready" THEN "break"
    ELSE IF i = LINEAR_MAX_RETRIES THEN "return"
    ELSE "sleep"

\* server.ts 1708-1729: one iteration of the tracker readiness loop
LinearIteration(i, servers) ==
    IF servers["Linear"] = "ready" THEN "break"
    ELSE IF i = LINEAR_MAX_RETRIES - 1 THEN "return"
    ELSE "sleep"

\* server.ts 1733-1750, 1773-1776: after the loop the comment tool is looked
\* up; a throwing getAITools(), a missing tool and a tool without execute all
\* end the function without a call
CommentLookup(tools) ==
    CASE tools = "throws" -> "toolsThrew"
      [] tools = "noCommentTool" -> "toolNotFound"
      [] tools = "noExecute" -> "noExecute"
      [] tools = "commentTool" -> "call"

\* postResearchToLinear going on to the comment tool when its budget is spent
LinearStepPostsOnTimeout(workflowId, i) ==
    \E servers \in Registries, tools \in ToolSets :
        LET outcome == IF LinearIteration(i, servers) = "sleep" THEN "sleep"
                       ELSE "break"
            lookup == CommentLookup(tools) IN
        /\ polls' = [polls EXCEPT ![workflowId].linear =
                         IF outcome = "sleep" THEN "none" ELSE servers["Linear"]]
        /\ CASE outcome = "sleep" ->
                 /\ run' = [run EXCEPT ![workflowId].pc = "linearRetryDelay",
                                       ![workflowId].li = i,
                                       ![workflowId].arg = <<>>]
                 /\ tracker' = [tracker EXCEPT ![workflowId] = "waiting"]
                 /\ UNCHANGED comments
          [] outcome = "return" ->
                 /\ run' = [run EXCEPT ![workflowId].pc = "done",
                                       ![workflowId].li = 0,
                                       ![workflowId].arg = <<>>]
                 /\ tracker' = [tracker EXCEPT ![workflowId] = "notReady"]
                 /\ UNCHANGED comments
          [] outcome = "break" /\ lookup = "call" ->
                 /\ run' = [run EXCEPT ![workflowId].pc = "commentExecute",
                                       ![workflowId].li = 0,
                                       ![workflowId].arg = <<>>]
                 /\ tracker' = [tracker EXCEPT ![workflowId] = "calling"]
                 /\ comments' = [comments EXCEPT ![workflowId] = @ + 1]
          [] outcome = "break" /\ lookup # "call" ->
                 /\ run' = [run EXCEPT ![workflowId].pc = "done",
                                       ![workflowId].li = 0,
                                       ![workflowId].arg = <<>>]
                 /\ tracker' = [tracker EXCEPT ![workflowId] = lookup]
                 /\ UNCHANGED comments

\* server.ts 1707-1770: the loop body at index i and what follows its exit up
\* to the next await or the return; executeResearch returns when
\* postResearchToLinear does
LinearStep(workflowId, i) ==
    \E servers \in Registries, tools \in ToolSets :
        LET outcome == LinearIteration(i, servers)
            lookup == CommentLookup(tools) IN
        /\ polls' = [polls EXCEPT ![workflowId].linear =
                         IF outcome = "sleep" THEN "none" ELSE servers["Linear"]]
        /\ CASE outcome = "sleep" ->
                 /\ run' = [run EXCEPT ![workflowId].pc = "linearRetryDelay",
                                       ![workflowId].li = i,
                                       ![workflowId].arg = <<>>]
                 /\ tracker' = [tracker EXCEPT ![workflowId] = "waiting"]
                 /\ UNCHANGED comments
          [] outcome = "return" ->
                 /\ run' = [run EXCEPT ![workflowId].pc = "done",
                                       ![workflowId].li = 0,
                                       ![workflowId].arg = <<>>]
                 /\ tracker' = [tracker EXCEPT ![workflowId] = "notReady"]
                 /\ UNCHANGED comments
          [] outcome = "break" /\ lookup = "call" ->
                 /\ run' = [run EXCEPT ![workflowId].pc = "commentExecute",
                                       ![workflowId].li = 0,
                                       ![workflowId].arg = <<>>]
                 /\ tracker' = [tracker EXCEPT ![workflowId] = "calling"]
                 /\ comments' = [comments EXCEPT ![workflowId] = @ + 1]
          [] outcome = "break" /\ lookup # "call" ->
                 /\ run' = [run EXCEPT ![workflowId].pc = "done",
                                       ![workflowId].li = 0,
                                       ![workflowId].arg = <<>>]
                 /\ tracker' = [tracker EXCEPT ![workflowId] = lookup]
                 /\ UNCHANGED comments

\* the success path posting to the tracker without the `if (taskId)` test
saveResultsReturnsAlwaysPost(workflowId) ==
    /\ Frame(workflowId).pc = "saveResults"
    /\ UNCHANGED <<call, tool>>
    /\ messages' = Frame(workflowId).arg
    /\ appended' = [appended EXCEPT ![workflowId] = Append(@, "results")]
    /\ UNCHANGED <<workflows, scheduled, delivered>>
    /\ LinearStep(workflowId, 0)

\* server.ts 1633-1656: saveMessages resolved, the results entry is in the
\* transcript; with a truthy taskId the tracker post starts, else the run ends
saveResultsReturns(workflowId) ==
    /\ Frame(workflowId).pc = "saveResults"
    /\ UNCHANGED <<call, tool>>
    /\ messages' = Frame(workflowId).arg
    /\ appended' = [appended EXCEPT ![workflowId] = Append(@, "results")]
    /\ UNCHANGED <<workflows, scheduled, delivered>>
    /\ IF Frame(workflowId).taskId \notin {NULL, ""}
       THEN LinearStep(workflowId, 0)
       ELSE /\ run' = [run EXCEPT ![workflowId].pc = "done",
                                  ![workflowId].arg = <<>>]
            /\ UNCHANGED <<comments, tracker, polls>>

\* a rejected saveMessages swallowed: the run goes on to the tracker post
saveResultsThrowsThenPosts(workflowId) ==
    /\ Frame(workflowId).pc = "saveResults"
    /\ UNCHANGED <<call, tool>>
    /\ UNCHANGED <<workflows, scheduled, delivered, messages, appended>>
    /\ IF Frame(workflowId).taskId \notin {NULL, ""}
       THEN LinearStep(workflowId, 0)
       ELSE /\ run' = [run EXCEPT ![workflowId].pc = "done",
                                  ![workflowId].arg = <<>>]
            /\ UNCHANGED <<comments, tracker, polls>>

\* server.ts 1633, 1657-1687: saveMessages rejected inside the try block, so
\* the catch block runs on a workflow that is already completed.  A rejection
\* does not tell whether the entry reached the transcript: both are modelled.
saveResultsThrows(workflowId) ==
    /\ Frame(workflowId).pc = "saveResults"
    /\ UNCHANGED <<call, tool>>
    /\ UNCHANGED <<scheduled, delivered, comments, tracker, polls>>
    /\ \E persisted \in BOOLEAN :
        /\ appended' = [appended EXCEPT ![workflowId] =
                           IF persisted THEN Append(@, "results") ELSE @]
        /\ CatchBlock(workflowId,
                      IF persisted THEN Frame(workflowId).arg ELSE messages,
                      "saveMessages failed")

\* server.ts 1729: the tracker RETRY_DELAY timer fired
linearRetryDelayElapsed(workflowId) ==
    /\ Frame(workflowId).pc = "linearRetryDelay"
    /\ UNCHANGED <<call, tool>>
    /\ LinearStep(workflowId, Frame(workflowId).li + 1)
    /\ UNCHANGED <<workflows, scheduled, delivered, messages, appended>>

\* server.ts 1767-1772: commentTool.execute resolved
commentExecuteReturns(workflowId) ==
    /\ Frame(workflowId).pc = "commentExecute"
    /\ UNCHANGED <<call, tool>>
    /\ run' = [run EXCEPT ![workflowId].pc = "done"]
    /\ tracker' = [tracker EXCEPT ![workflowId] = "posted"]
    /\ UNCHANGED <<workflows, scheduled, delivered, messages, appended, comments, polls>>

\* postResearchToLinear without its catch: the rejection reaches the catch
\* block of executeResearch
commentExecuteRethrows(workflowId) ==
    /\ Frame(workflowId).pc = "commentExecute"
    /\ UNCHANGED <<call, tool>>
    /\ CatchBlock(workflowId, messages, "comment failed")
    /\ tracker' = [tracker EXCEPT ![workflowId] = "callThrew"]
    /\ UNCHANGED <<scheduled, delivered, appended, comments, polls>>

\* server.ts 1767-1776: commentTool.execute rejected; the catch of
\* postResearchToLinear logs and returns
commentExecuteThrows(workflowId) ==
    /\ Frame(workflowId).pc = "commentExecute"
    /\ UNCHANGED <<call, tool>>
    /\ run' = [run EXCEPT ![workflowId].pc = "done"]
    /\ tracker' = [tracker EXCEPT ![workflowId] = "callThrew"]
    /\ UNCHANGED <<workflows, scheduled, delivered, messages, appended, comments, polls>>

\* server.ts 1670-1688: saveMessages resolved with the error entry appended
saveErrorReturns(workflowId) ==
    /\ Frame(workflowId).pc = "saveError"
    /\ UNCHANGED <<call, tool>>
    /\ messages' = Frame(workflowId).arg
    /\ appended' = [appended EXCEPT ![workflowId] = Append(@, "error")]
    /\ run' = [run EXCEPT ![workflowId].pc = "done", ![workflowId].arg = <<>>]
    /\ UNCHANGED <<workflows, scheduled, delivered, comments, tracker, polls>>

\* server.ts 1670: saveMessages rejected in the catch block: nothing catches
\* it and the promise of executeResearch rejects
saveErrorThrows(workflowId) ==
    /\ Frame(workflowId).pc = "saveError"
    /\ UNCHANGED <<call, tool>>
    /\ run' = [run EXCEPT ![workflowId].pc = "rejected", ![workflowId].arg = <<>>]
    /\ UNCHANGED <<workflows, scheduled, delivered, comments, tracker, polls>>
    /\ \E persisted \in BOOLEAN :
        /\ messages' = IF persisted THEN Frame(workflowId).arg ELSE messages
        /\ appended' = [appended EXCEPT ![workflowId] =
                           IF persisted THEN Append(@, "error") ELSE @]

\* the scheduler delivers the job of a finished run once more
redeliver(workflowId) ==
    /\ Frame(workflowId).pc \in Finished
    /\ UNCHANGED <<call, tool>>
    /\ delivered[workflowId] < MaxDeliveries
    /\ Invoke(workflowId)

\* ---------------------------------------------------------- specifications

Step(workflowId) ==
    \/ executeResearch(workflowId)
    \/ ensureJsonSchemaReturns(workflowId)
    \/ ensureJsonSchemaThrows(workflowId)
    \/ retryDelayElapsed(workflowId)
    \/ streamTextReturns(workflowId)
    \/ streamTextThrows(workflowId)
    \/ saveResultsReturns(workflowId)
    \/ saveResultsThrows(workflowId)
    \/ linearRetryDelayElapsed(workflowId)
    \/ commentExecuteReturns(workflowId)
    \/ commentExecuteThrows(workflowId)
    \/ saveErrorReturns(workflowId)
    \/ saveErrorThrows(workflowId)

Next ==
    \/ researchRepository
    \/ \E workflowId \in WorkflowIds : Step(workflowId)

\* the scheduler fires every job exactly once
Spec == Init /\ [][Next]_vars

\* the same start, with the outcome of getAITools() kept for every iteration
\* of the readiness loop of executeResearch
InitTraced ==
    /\ workflows = <<>>
    /\ scheduled = [w \in WorkflowIds |-> 0]
    /\ delivered = [w \in WorkflowIds |-> 0]
    /\ run = [w \in WorkflowIds |-> IdleFrame]
    /\ messages = <<>>
    /\ appended = [w \in WorkflowIds |-> <<>>]
    /\ comments = [w \in WorkflowIds |-> 0]
    /\ tracker = [w \in WorkflowIds |-> "none"]
    /\ polls = [w \in WorkflowIds |-> [NoPolls EXCEPT !.trace = TRUE]]
    /\ tool = NoTool
    /\ call = NoCall

SpecTraced == InitTraced /\ [][Next]_vars

NextRedeliver ==
    \/ DOMAIN workflows = {} /\ researchRepository
    \/ \E workflowId \in WorkflowIds : Step(workflowId)
    \/ \E workflowId \in WorkflowIds : redeliver(workflowId)

\* one workflow whose job the scheduler may deliver again after its run ended
SpecRedeliver == Init /\ [][NextRedeliver]_vars

\* the scheduler delivers every queued job, and every call a run awaits (a
\* timer, the model completion, saveMessages, the comment tool) resolves or
\* rejects: a run that can take a step eventually takes one
Fairness == \A workflowId \in WorkflowIds : WF_vars(Step(workflowId))

FairSpec == Spec /\ Fairness

\* ----------------------------------------------------- tools.ts: helpers

\* A text is a sequence of strings.  Where the code looks inside a text
\* (extractKeywords) the strings are single characters; where it only
\* concatenates texts (templates, summaries, the synthesis) a string stands for
\* a run of characters kept together.
Contains(text, part) ==
    \E k \in 0..(Len(text) - Len(part)) :
        SubSeq(text, k + 1, k + Len(part)) = part

IsPrefix(part, text) ==
    /\ Len(part) <= Len(text)
    /\ SubSeq(text, 1, Len(part)) = part

Min(a, b) == IF a < b THEN a ELSE b

\* Array.prototype.slice(0, n)
slice(list, n) == SubSeq(list, 1, Min(n, Len(list)))

AllDepths == {"quick", "medium", "thorough"}

coreQuestions(question) ==
    << <<"What files and directories are most relevant to: ">> \o question \o <<"?">>,
       <<"What is the current implementation or pattern related to: ">> \o question \o <<"?">> >>

mediumQuestions(question) ==
    coreQuestions(question) \o
    << <<"What dependencies or libraries are used for: ">> \o question \o <<"?">>,
       <<"Are there any tests or documentation related to: ">> \o question \o <<"?">> >>

thoroughQuestions(question) ==
    mediumQuestions(question) \o
    << <<"What is the historical context (commits, PRs) for: ">> \o question \o <<"?">>,
       <<"Are there any related issues or TODOs for: ">> \o question \o <<"?">> >>

\* the switch returning the medium list for depth thorough
decomposeQuestionThoroughAsMedium(question, depth) ==
    CASE depth = "quick" -> coreQuestions(question)
      [] depth = "medium" -> mediumQuestions(question)
      [] depth = "thorough" -> mediumQuestions(question)

\* tools.ts 231-261
decomposeQuestion(question, depth) ==
    CASE depth = "quick" -> coreQuestions(question)
      [] depth = "medium" -> mediumQuestions(question)
      [] depth = "thorough" -> thoroughQuestions(question)

\* tools.ts 421-440
stopWords ==
    {<<"w", "h", "a", "t">>, <<"h", "o", "w">>,
     <<"w", "h", "y">>, <<"w", "h", "e", "r", "e">>,
     <<"w", "h", "e", "n">>, <<"w", "h", "o">>,
     <<"i", "s">>, <<"a", "r", "e">>,
     <<"t", "h", "e">>, <<"a">>,
     <<"a", "n">>, <<"f", "o", "r">>,
     <<"t", "o">>, <<"i", "n">>,
     <<"o", "n">>, <<"a", "t">>,
     <<"r", "e", "l", "a", "t", "e", "d">>, <<"a", "b", "o", "u", "t">>}

\* String.prototype.toLowerCase on the letters the inputs use
toLowerCase(text) ==
    [k \in 1..Len(text) |->
        CASE text[k] = "A" -> "a"
          [] text[k] = "J" -> "j"
          [] text[k] = "T" -> "t"
          [] text[k] = "W" -> "w"
          [] OTHER -> text[k]]

\* the characters of the class [?:,.()[\]{}] at tools.ts 445
Punctuation == {"?", ":", ",", ".", "(", ")", "[", "]", "{", "}"}

\* .replace(/[?:,.()[\]{}]/g, ""): the characters are removed, not replaced
stripPunctuation(text) == SelectSeq(text, LAMBDA c : c \notin Punctuation)

\* the characters \s matches, of those the inputs use
Whitespace == {" ", "\n"}

\* String.prototype.split(/\s+/): every run of whitespace separates two
\* tokens; a run at the start or the end of the text leaves an empty token
split(text) ==
    LET RECURSIVE scan(_, _, _)
        scan(k, word, inRun) ==
            IF k > Len(text) THEN <<word>>
            ELSE IF text[k] \in Whitespace
            THEN IF inRun THEN scan(k + 1, word, TRUE)
                 ELSE <<word>> \o scan(k + 1, <<>>, TRUE)
            ELSE scan(k + 1, Append(word, text[k]), FALSE)
    IN scan(1, <<>>, FALSE)

\* extractKeywords keeping six tokens
extractKeywordsSix(question) ==
    LET words == SelectSeq(split(stripPunctuation(toLowerCase(question))),
                           LAMBDA word : Len(word) > 2 /\ word \notin stopWords)
    IN slice(words, 6)

\* tools.ts 419-451
extractKeywords(question) ==
    LET words == SelectSeq(split(stripPunctuation(toLowerCase(question))),
                           LAMBDA word : Len(word) > 2 /\ word \notin stopWords)
    IN slice(words, 5)

\* what Boolean(value) is for the values the inputs use
Truthy(value) == value \notin {UNDEFINED, NULL, ""}

\* searchResults is [kind, items]: kind "null" for a falsy value, "noItems"
\* for an object without items, "items" for an object whose items are `items`
\* tools.ts 521-530
extractFilesList(searchResults) ==
    IF searchResults.kind # "items" THEN <<>>
    ELSE LET items == searchResults.items
             paths == [k \in 1..Len(items) |->
                          IF Truthy(items[k].path) THEN items[k].path
                          ELSE items[k].name]
         IN slice(SelectSeq(paths, Truthy), 10)

\* Array.prototype.join on texts
RECURSIVE join(_, _)
join(texts, separator) ==
    IF texts = <<>> THEN <<>>
    ELSE IF Len(texts) = 1 THEN texts[1]
    ELSE texts[1] \o separator \o join(Tail(texts), separator)

\* Set.prototype.add on a Set kept in insertion order
add(set, value) ==
    IF \E k \in 1..Len(set) : set[k] = value THEN set ELSE Append(set, value)

RECURSIVE addAll(_, _)
addAll(set, values) ==
    IF values = <<>> THEN set
    ELSE addAll(add(set, Head(values)), Tail(values))

\* tools.ts 548-551: the files of the explorations, each once, first seen first
RECURSIVE allFilesOf(_, _)
allFilesOf(set, explorations) ==
    IF explorations = <<>> THEN set
    ELSE allFilesOf(IF "files" \in DOMAIN Head(explorations)
                    THEN addAll(set, Head(explorations).files)
                    ELSE set,
                    Tail(explorations))

\* synthesizeResearch appending the file section whatever the files are
synthesizeResearchAlwaysFiles(question, explorations) ==
    LET sections == [k \in 1..Len(explorations) |->
                        <<"**">> \o explorations[k].subQuestion \o <<"**\n">>
                            \o explorations[k].summary]
        allFiles == allFilesOf(<<>>, explorations)
        header == <<"# Research Results: ">> \o question \o <<"\n\n">>
    IN header \o join(sections, <<"\n\n">>)
           \o <<"\n\n## Relevant Files\n">>
           \o join([k \in 1..Len(allFiles) |-> <<"- ", allFiles[k]>>], <<"\n">>)

\* tools.ts 535-563
synthesizeResearch(question, explorations) ==
    LET sections == [k \in 1..Len(explorations) |->
                        <<"**">> \o explorations[k].subQuestion \o <<"**\n">>
                            \o explorations[k].summary]
        allFiles == allFilesOf(<<>>, explorations)
        header == <<"# Research Results: ">> \o question \o <<"\n\n">>
    IN IF Len(allFiles) > 0
       THEN header \o join(sections, <<"\n\n">>)
                \o <<"\n\n## Relevant Files\n">>
                \o join([k \in 1..Len(allFiles) |-> <<"- ", allFiles[k]>>], <<"\n">>)
       ELSE header \o join(sections, <<"\n\n">>)

\* ---------------------------------------------- tools.ts: helper calls

MaxQuestionLen == 3

RECURSIVE SeqsUpTo(_, _)
\* the sequences over `values` of length at most n
SeqsUpTo(values, n) ==
    IF n = 0 THEN {<<>>}
    ELSE LET shorter == SeqsUpTo(values, n - 1) IN
         shorter \cup {Append(s, v) : s \in shorter, v \in values}

\* the questions the helpers are called with
HelperQuestions == SeqsUpTo({"How is ", "auth", " handled"}, MaxQuestionLen)

MaxWords == 6

\* the words a question for extractKeywords is made of: a stop word in
\* capitals with punctuation, two keywords, a word too short once its
\* punctuation is gone, and the empty word (two spaces in a row)
Words ==
    {<<"W", "h", "a", "t", "?">>, <<"A", "u", "t", "h", ":">>,
     <<"J", "W", "T">>, <<"(", "a", ")">>, <<>>}

WordLists == SeqsUpTo(Words, MaxWords)

MaxExplorations == 2

FileLists == {<<>>, <<"src/auth.ts">>, <<"src/auth.ts", "src/login.ts">>,
              <<"src/login.ts">>}

\* the exploration results handed to synthesizeResearch; files is optional
ExplorationInputs ==
    {[subQuestion |-> <<"What files?">>, summary |-> summary] :
        summary \in {<<"Found 1 relevant files.">>, <<>>}}
    \cup
    {[subQuestion |-> <<"What files?">>, summary |-> <<"Found 1 relevant files.">>,
      files |-> files] : files \in FileLists}

NewCall(fn, args) == [NoCall EXCEPT !.fn = fn, !.args = args]

decomposeQuestionReturns ==
    /\ call.fn = "decomposeQuestion" /\ ~call.returned
    /\ call' = [call EXCEPT !.result = decomposeQuestion(call.args[1], call.args[2]),
                            !.returned = TRUE]
    /\ UNCHANGED <<workflows, scheduled, delivered, run, messages, appended,
                   comments, tracker, polls, tool>>

\* the question is the words of args[1] separated by single spaces
extractKeywordsReturns ==
    /\ call.fn = "extractKeywords" /\ ~call.returned
    /\ call' = [call EXCEPT !.result = extractKeywords(join(call.args[1], <<" ">>)),
                            !.returned = TRUE]
    /\ UNCHANGED <<workflows, scheduled, delivered, run, messages, appended,
                   comments, tracker, polls, tool>>

synthesizeResearchReturns ==
    /\ call.fn = "synthesizeResearch" /\ ~call.returned
    /\ call' = [call EXCEPT !.result = synthesizeResearch(call.args[1], call.args[2]),
                            !.returned = TRUE]
    /\ UNCHANGED <<workflows, scheduled, delivered, run, messages, appended,
                   comments, tracker, polls, tool>>

InitHelpers ==
    /\ InitEngine
    /\ tool = NoTool
    /\ \/ \E question \in HelperQuestions, depth \in AllDepths :
              call = NewCall("decomposeQuestion", <<question, depth>>)
       \/ \E words \in WordLists :
              call = NewCall("extractKeywords", <<words>>)
       \/ \E question \in HelperQuestions,
             explorations \in SeqsUpTo(ExplorationInputs, MaxExplorations) :
              call = NewCall("synthesizeResearch", <<question, explorations>>)

NextHelpers ==
    \/ decomposeQuestionReturns
    \/ extractKeywordsReturns
    \/ synthesizeResearchReturns

\* one call of one helper, on every input of the bounded sets
SpecHelpers == InitHelpers /\ [][NextHelpers]_vars

\* ------------------------------------- tools.ts: researchRepository.execute

MAX_WAIT_MS == 15000

RETRY_INTERVAL_MS == 500

\* how late the setTimeout of the readiness loop may fire: on time, or one
\* interval late
TimerLateness == {0, RETRY_INTERVAL_MS}

\* the arguments execute is called with.  The two explorations of a quick
\* run are followed on every tool set and search result below, the four of a
\* medium run on the narrower sets ToolKitsAt and SearchResultsAt give.
ToolDepths == {"quick", "medium"}

ToolQuestions == {<<"How is auth handled">>}

\* what agent.mcp.getAITools() gives an exploration: it throws, or it returns
\* a tool set without a search_code tool, with one that has no execute, with
\* search_code only, with get_file_contents too, or with a get_file_contents
\* that has no execute
ToolKits == {"throws", "noSearch", "searchNoExecute", "searchOnly",
             "searchAndRead", "readNoExecute"}

Item(path, name) == [path |-> path, name |-> name]

\* twelve items: one with a name only, one with neither path nor name, ten
\* with a path
ManyItems ==
    [k \in 1..12 |->
        IF k = 1 THEN Item(UNDEFINED, "README.md")
        ELSE IF k = 2 THEN Item(UNDEFINED, UNDEFINED)
        ELSE Item("src/file" \o ToString(k) \o ".ts", "file" \o ToString(k) \o ".ts")]

\* what searchTool.execute resolves with
SearchResults ==
    {[kind |-> "null", items |-> <<>>],
     [kind |-> "noItems", items |-> <<>>],
     [kind |-> "items", items |-> <<>>],
     [kind |-> "items", items |-> <<Item(UNDEFINED, ""), Item("", UNDEFINED)>>],
     [kind |-> "items", items |-> <<Item("src/auth.ts", "auth.ts")>>],
     [kind |-> "items", items |-> ManyItems],
     [kind |-> "itemsNotArray", items |-> <<>>]}

\* the tool sets a run of the given depth is followed on
ToolKitsAt(depth) == IF depth = "quick" THEN ToolKits ELSE {"searchOnly"}

\* the search results a run of the given depth is followed on
SearchResultsAt(depth) ==
    IF depth = "quick" THEN SearchResults
    ELSE {[kind |-> "items", items |-> <<Item("src/auth.ts", "auth.ts")>>]}

\* what a get_file_contents call resolves with, after JSON.parse and
\* content.slice(0, 2000): no text, or one line of code
Contents == {<<>>, <<"const auth = 1">>}

\* tools.ts 279: getAITools() throwing
GetToolsError == "Error: MCP tools unavailable"

\* tools.ts 330: searchTool.execute rejecting
SearchError == "Error: search_code failed"

\* tools.ts 526-527: searchResults.items is truthy and has no map method
ItemsError == "TypeError: searchResults.items.map is not a function"

\* tools.ts 289-294
SearchToolNotFound(subQuestion) ==
    [success |-> FALSE, subQuestion |-> subQuestion,
     summary |-> <<"GitHub MCP search_code tool not available">>,
     error |-> "search_code tool not found"]

\* tools.ts 301-306
SearchToolNotExecutable(subQuestion) ==
    [success |-> FALSE, subQuestion |-> subQuestion,
     summary |-> <<"GitHub MCP search_code tool not executable">>,
     error |-> "search_code tool has no execute function"]

\* tools.ts 405-413: the catch block of exploreSubQuestion
ExplorationFailed(subQuestion, error) ==
    [success |-> FALSE, subQuestion |-> subQuestion,
     summary |-> <<"Failed to explore: ", error>>,
     error |-> error]

\* tools.ts 337-342
NoRelevantFiles(repository, subQuestion) ==
    [success |-> TRUE, subQuestion |-> subQuestion,
     summary |-> <<"No relevant files found in ", repository, " for: ">>
                     \o subQuestion,
     files |-> <<>>]

\* tools.ts 457-516.  The one non-empty content has no import line and one
\* line with "const ", which is also its preview.
summarizeWithContent(subQuestion, filePaths, fileContents) ==
    IF Len(filePaths) = 0
    THEN <<"No relevant files found for: ">> \o subQuestion
    ELSE LET found == <<"Found ", ToString(Len(filePaths)), " relevant file(s):\n">>
             analysis(file) ==
                 <<"\n**", file.path, "**\n">> \o
                 (IF file.content = <<>> THEN <<>>
                  ELSE <<"- Key exports: ">> \o file.content \o <<"\n">> \o
                       <<"- Preview: ">> \o file.content \o <<"...\n">>)
             listed == slice(filePaths, 10)
         IN IF Len(fileContents) > 0
            THEN found \o join([k \in 1..Len(fileContents) |->
                                   analysis(fileContents[k])], <<>>)
            ELSE found \o join([k \in 1..Len(listed) |-> <<"- ", listed[k]>>],
                               <<"\n">>)

\* tools.ts 398-404
ExplorationSucceeded(subQuestion, filePaths, fileContents) ==
    [success |-> TRUE, subQuestion |-> subQuestion,
     summary |-> summarizeWithContent(subQuestion, filePaths, fileContents),
     files |-> filePaths]

\* the frame of one exploreSubQuestion call: pc is "search" while
\* searchTool.execute is awaited, "reading" while the reads are, "done" once
\* it returned `result`; searchResults is what the search resolved with, if
\* it did; reads holds one entry per read launched
Unit(pc, subQuestion, filePaths, reads, result) ==
    [pc |-> pc, subQuestion |-> subQuestion,
     searchResults |-> [kind |-> "none", items |-> <<>>],
     filePaths |-> filePaths, reads |-> reads, result |-> result]

Returned(result) == Unit("done", result.subQuestion, <<>>, <<>>, result)

Pending == [state |-> "pending", content |-> <<>>]

\* tools.ts 278-330: exploreSubQuestion up to its first await
exploreSubQuestion(repository, subQuestion, tools) ==
    CASE tools = "throws" ->
             Returned(ExplorationFailed(subQuestion, GetToolsError))
      [] tools = "noSearch" ->
             Returned(SearchToolNotFound(subQuestion))
      [] tools = "searchNoExecute" ->
             Returned(SearchToolNotExecutable(subQuestion))
      [] OTHER ->
             Unit("search", subQuestion, <<>>, <<>>, [pending |-> TRUE])

\* tools.ts 390-404: the reads are settled: the nulls are filtered out and
\* the summary is built
ReadsSettled(unit) ==
    LET kept == SelectSeq([n \in 1..Len(unit.reads) |->
                              [path |-> unit.filePaths[n],
                               state |-> unit.reads[n].state,
                               content |-> unit.reads[n].content]],
                          LAMBDA read : read.state = "resolved")
        fileContents == [n \in 1..Len(kept) |->
                            [path |-> kept[n].path, content |-> kept[n].content]]
    IN [unit EXCEPT !.pc = "done",
                    !.result = ExplorationSucceeded(unit.subQuestion,
                                                    unit.filePaths, fileContents)]

\* exploreSubQuestion giving the summary of summarizeWithContent when nothing
\* was found
AfterSearchOtherSummary(repository, unit, searchResults, tools) ==
    LET filePaths == extractFilesList(searchResults)
        searched == [unit EXCEPT !.searchResults = searchResults,
                                 !.filePaths = filePaths]
    IN IF searchResults.kind = "itemsNotArray"
       THEN [searched EXCEPT !.pc = "done",
                             !.result = ExplorationFailed(unit.subQuestion,
                                                          ItemsError)]
       ELSE IF Len(filePaths) = 0
       THEN ReadsSettled(searched)
       ELSE IF tools = "searchOnly"
       THEN ReadsSettled(searched)
       ELSE [searched EXCEPT !.pc = "reading",
                             !.reads = [n \in 1..Len(slice(filePaths, 3)) |-> Pending]]

\* tools.ts 333-404: searchTool.execute resolved with searchResults
AfterSearch(repository, unit, searchResults, tools) ==
    LET filePaths == extractFilesList(searchResults)
        filesToRead == slice(filePaths, 3)
        searched == [unit EXCEPT !.searchResults = searchResults]
    IN IF searchResults.kind = "itemsNotArray"
       THEN [searched EXCEPT !.pc = "done",
                             !.result = ExplorationFailed(unit.subQuestion,
                                                          ItemsError)]
       ELSE IF Len(filePaths) = 0
       THEN [searched EXCEPT !.pc = "done",
                             !.result = NoRelevantFiles(repository, unit.subQuestion)]
       ELSE IF tools = "searchOnly"
       THEN ReadsSettled([searched EXCEPT !.filePaths = filePaths])
       ELSE IF tools = "readNoExecute"
       THEN ReadsSettled([searched EXCEPT
                             !.filePaths = filePaths,
                             !.reads = [n \in 1..Len(filesToRead) |->
                                           [state |-> "null", content |-> <<>>]]])
       ELSE [searched EXCEPT !.pc = "reading",
                             !.filePaths = filePaths,
                             !.reads = [n \in 1..Len(filesToRead) |-> Pending]]

\* the exploration going on as soon as one read has settled
AfterReadFirstSettles(unit, n, read) ==
    ReadsSettled([unit EXCEPT !.reads = [unit.reads EXCEPT ![n] = read]])

\* tools.ts 351-388: read n settled as `read`; the exploration goes on once
\* every read has
AfterRead(unit, n, read) ==
    LET reads == [unit.reads EXCEPT ![n] = read] IN
    IF \E m \in 1..Len(reads) : reads[m].state = "pending"
    THEN [unit EXCEPT !.reads = reads]
    ELSE ReadsSettled([unit EXCEPT !.reads = reads])

\* tools.ts 164-171
NotAvailable ==
    [success |-> FALSE,
     error |-> "GitHub MCP server is not available. Please ensure you're connected to GitHub in the Setup page."]

\* tools.ts 188-194
AllFailed ==
    [success |-> FALSE,
     error |-> "All exploration attempts failed. The repository may not be accessible or GitHub MCP may not be connected."]

\* the readiness loop succeeding only when the server named GitHub is ready
AnyReadyGitHubOnly(servers) == servers["GitHub"] = "ready"

\* tools.ts 144-156: readyServers.length > 0
AnyReady(servers) == \E name \in ServerNames : servers[name] = "ready"

\* tools.ts 181-183: exploration k of the run went on to `unit`; finished lists
\* the explorations in the order their promises settled
Settle(frame, k, unit) ==
    [frame EXCEPT !.units[k] = unit,
                  !.finished = IF unit.pc = "done" THEN Append(@, k) ELSE @]

\* the fan-in going on as soon as one exploration has returned
AnySettled(units) == \E k \in 1..Len(units) : units[k].pc = "done"

\* tools.ts 181-183: Promise.all resolves once every promise it was given has
AllSettled(units) == \A k \in 1..Len(units) : units[k].pc = "done"

\* the values of the fan-in in the order the explorations finished
ExplorationsInFinishOrder(frame) ==
    [j \in 1..Len(frame.finished) |-> frame.units[frame.finished[j]].result]

\* tools.ts 181-183: the array Promise.all resolves with: the value of each
\* settled promise, in the order of subQuestions
Explorations(frame) ==
    LET settled == SelectSeq(frame.units, LAMBDA unit : unit.pc = "done") IN
    [k \in 1..Len(settled) |-> settled[k].result]

\* tools.ts 143-183: one pass of the readiness loop at the time frame.elapsed
\* on the registry snapshot `servers`, and what follows it up to the next
\* await: the retry timer, or the decomposition and the launch of every
\* exploration.  startTime is not read once the loop is left.
Poll(frame, servers) ==
    LET polled == [frame EXCEPT !.ready = {name \in ServerNames :
                                             servers[name] = "ready"}] IN
    IF AnyReady(servers)
    THEN \E tools \in ToolKitsAt(frame.depth) :
             LET subQuestions == decomposeQuestion(frame.question, frame.depth)
                 units == [k \in 1..Len(subQuestions) |->
                              exploreSubQuestion(frame.repository,
                                                 subQuestions[k], tools)]
             IN tool' = [polled EXCEPT
                            !.pc = "exploring",
                            !.elapsed = 0,
                            !.mcpReady = TRUE,
                            !.tools = tools,
                            !.units = units,
                            !.finished = SelectSeq(
                                [k \in 1..Len(units) |-> k],
                                LAMBDA k : units[k].pc = "done")]
    ELSE tool' = [polled EXCEPT !.pc = "waiting"]

\* tools.ts 130-162: the tool is invoked; startTime is taken and the first
\* pass of the loop runs
execute ==
    /\ tool.pc = "idle"
    /\ \E repository \in Repositories, question \in ToolQuestions,
          depth \in ToolDepths, servers \in Registries :
           Poll([tool EXCEPT !.repository = repository,
                             !.question = question,
                             !.depth = depth], servers)
    /\ UNCHANGED <<workflows, scheduled, delivered, run, messages, appended,
                   comments, tracker, polls, call>>

\* the loop giving up by throwing
retryIntervalElapsedThrows ==
    /\ tool.pc = "waiting"
    /\ \E late \in TimerLateness :
           LET elapsed == tool.elapsed + RETRY_INTERVAL_MS + late IN
           IF elapsed < MAX_WAIT_MS
           THEN \E servers \in Registries :
                    Poll([tool EXCEPT !.elapsed = elapsed], servers)
           ELSE tool' = [tool EXCEPT !.pc = "rejected", !.elapsed = elapsed]
    /\ UNCHANGED <<workflows, scheduled, delivered, run, messages, appended,
                   comments, tracker, polls, call>>

\* tools.ts 143, 161-171: the RETRY_INTERVAL_MS timer fired; the loop
\* condition reads the clock, and the loop runs again or is left with
\* mcpReady false, which returns the failure value
retryIntervalElapsed ==
    /\ tool.pc = "waiting"
    /\ \E late \in TimerLateness :
           LET elapsed == tool.elapsed + RETRY_INTERVAL_MS + late IN
           IF elapsed < MAX_WAIT_MS
           THEN \E servers \in Registries :
                    Poll([tool EXCEPT !.elapsed = elapsed], servers)
           ELSE tool' = [tool EXCEPT !.pc = "returned", !.elapsed = elapsed,
                                     !.result = NotAvailable]
    /\ UNCHANGED <<workflows, scheduled, delivered, run, messages, appended,
                   comments, tracker, polls, call>>

\* tools.ts 330-404: the search of exploration k resolved
searchReturns(k) ==
    /\ tool.pc = "exploring"
    /\ k \in 1..Len(tool.units)
    /\ tool.units[k].pc = "search"
    /\ \E searchResults \in SearchResultsAt(tool.depth) :
           tool' = Settle(tool, k, AfterSearch(tool.repository, tool.units[k],
                                               searchResults, tool.tools))
    /\ UNCHANGED <<workflows, scheduled, delivered, run, messages, appended,
                   comments, tracker, polls, call>>

\* the rejection of a search leaving exploreSubQuestion: Promise.all rejects
\* and the catch block of execute returns
searchThrowsPropagates(k) ==
    /\ tool.pc = "exploring"
    /\ k \in 1..Len(tool.units)
    /\ tool.units[k].pc = "search"
    /\ tool' = [tool EXCEPT
                   !.pc = "returned",
                   !.result = [success |-> FALSE,
                               error |-> "Research failed: " \o SearchError]]
    /\ UNCHANGED <<workflows, scheduled, delivered, run, messages, appended,
                   comments, tracker, polls, call>>

\* tools.ts 330, 405-413: the search of exploration k rejected
searchThrows(k) ==
    /\ tool.pc = "exploring"
    /\ k \in 1..Len(tool.units)
    /\ tool.units[k].pc = "search"
    /\ tool' = Settle(tool, k,
                      Returned(ExplorationFailed(tool.units[k].subQuestion,
                                                 SearchError)))
    /\ UNCHANGED <<workflows, scheduled, delivered, run, messages, appended,
                   comments, tracker, polls, call>>

\* tools.ts 353-372: read n of exploration k resolved and its text parsed
readReturns(k, n) ==
    /\ tool.pc = "exploring"
    /\ k \in 1..Len(tool.units)
    /\ tool.units[k].pc = "reading"
    /\ n \in 1..Len(tool.units[k].reads)
    /\ tool.units[k].reads[n].state = "pending"
    /\ \E content \in Contents :
           tool' = Settle(tool, k,
                          AfterRead(tool.units[k], n,
                                    [state |-> "resolved", content |-> content]))
    /\ UNCHANGED <<workflows, scheduled, delivered, run, messages, appended,
                   comments, tracker, polls, call>>

\* tools.ts 353-376: read n of exploration k rejected, or JSON.parse threw:
\* the read yields null
readThrows(k, n) ==
    /\ tool.pc = "exploring"
    /\ k \in 1..Len(tool.units)
    /\ tool.units[k].pc = "reading"
    /\ n \in 1..Len(tool.units[k].reads)
    /\ tool.units[k].reads[n].state = "pending"
    /\ tool' = Settle(tool, k,
                      AfterRead(tool.units[k], n,
                                [state |-> "null", content |-> <<>>]))
    /\ UNCHANGED <<workflows, scheduled, delivered, run, messages, appended,
                   comments, tracker, polls, call>>

\* the fan-in synthesizing whatever the explorations returned
explorationsSettledNoFilter ==
    /\ tool.pc = "exploring"
    /\ AllSettled(tool.units)
    /\ LET explorations == Explorations(tool) IN
       tool' = [tool EXCEPT
                   !.pc = "returned",
                   !.synthesized = @ + 1,
                   !.result =
                       [success |-> TRUE,
                        repository |-> tool.repository,
                        question |-> tool.question,
                        synthesis |-> synthesizeResearch(tool.question, explorations),
                        explorations |-> explorations,
                        metadata |-> [subQuestionsCount |-> Len(tool.units),
                                      successfulCount |-> Len(explorations),
                                      depth |-> tool.depth]]]
    /\ UNCHANGED <<workflows, scheduled, delivered, run, messages, appended,
                   comments, tracker, polls, call>>

\* tools.ts 181-218: Promise.all resolved: every exploration has returned; the
\* failed ones are filtered out and the rest is synthesized, or the run
\* returns the failure value when none is left
explorationsSettled ==
    /\ tool.pc = "exploring"
    /\ AllSettled(tool.units)
    /\ LET explorations == Explorations(tool)
           successfulExplorations == SelectSeq(explorations, LAMBDA e : e.success)
       IN IF Len(successfulExplorations) = 0
          THEN tool' = [tool EXCEPT !.pc = "returned", !.result = AllFailed]
          ELSE tool' = [tool EXCEPT
                           !.pc = "returned",
                           !.synthesized = @ + 1,
                           !.result =
                               [success |-> TRUE,
                                repository |-> tool.repository,
                                question |-> tool.question,
                                synthesis |-> synthesizeResearch(
                                                  tool.question,
                                                  successfulExplorations),
                                explorations |-> successfulExplorations,
                                metadata |->
                                    [subQuestionsCount |-> Len(tool.units),
                                     successfulCount |-> Len(successfulExplorations),
                                     depth |-> tool.depth]]]
    /\ UNCHANGED <<workflows, scheduled, delivered, run, messages, appended,
                   comments, tracker, polls, call>>

NextTool ==
    \/ execute
    \/ retryIntervalElapsed
    \/ \E k \in 1..Len(tool.units) : searchReturns(k)
    \/ \E k \in 1..Len(tool.units) : searchThrows(k)
    \/ \E k \in 1..Len(tool.units), n \in 1..3 : readReturns(k, n)
    \/ \E k \in 1..Len(tool.units), n \in 1..3 : readThrows(k, n)
    \/ explorationsSettled

\* one call of researchRepository.execute
SpecTool == Init /\ [][NextTool]_vars

\* the agent either runs workflows through executeResearch or serves one
\* researchRepository.execute call
NextAgent ==
    \/ tool = NoTool /\ Next
    \/ workflows = <<>> /\ NextTool

SpecAgent == Init /\ [][NextAgent]_vars

\* ------------------------------------------------------------ properties

Row(workflowId) == workflows[workflowId]

Created == DOMAIN workflows

EntriesOf(workflowId) ==
    {k \in 1..Len(messages) : messages[k].workflowId = workflowId}

\* C1: the persisted status of every workflow only moves pending ->
\* in_progress -> completed or pending -> in_progress -> failed; it never
\* moves backward and never leaves completed or failed.
C1_StatusMonotonic ==
    [][\A w \in Created :
          Row(w).status # workflows'[w].status
              => <<Row(w).status, workflows'[w].status>> \in
                     {<<"pending", "in_progress">>,
                      <<"in_progress", "completed">>,
                      <<"in_progress", "failed">>}]_vars

\* C2: a completed workflow has results and no error, a failed one has an
\* error and no results, a pending or in_progress one has neither.
C2_ResultsXorError ==
    \A w \in Created :
        /\ Row(w).status = "completed"
               => Row(w).results # NULL /\ Row(w).error = NULL
        /\ Row(w).status = "failed"
               => Row(w).error # NULL /\ Row(w).results = NULL
        /\ Row(w).status \in {"pending", "in_progress"}
               => Row(w).results = NULL /\ Row(w).error = NULL

\* C3: a run of executeResearch on an existing workflow appends exactly one
\* assistant entry, the results entry or the error entry: never two while it
\* runs, and one once it has ended.
C3_ExactlyOneEntry ==
    \A w \in Created :
        /\ Len(appended[w]) <= 1
        /\ Frame(w).pc \in {"done", "rejected"} => Len(appended[w]) = 1

\* C4: a transcript entry of a workflow is handed to saveMessages, and is in
\* the transcript, only once the terminal status of that workflow is
\* persisted: never while the row is pending or in_progress.
C4_EntryAfterTerminalStatus ==
    /\ \A k \in 1..Len(messages) :
           /\ messages[k].workflowId \in Created
           /\ Row(messages[k].workflowId).status \in Terminal
    /\ \A w \in WorkflowIds :
           (appended[w] # <<>> \/ Frame(w).pc \in {"saveResults", "saveError"})
               => w \in Created /\ Row(w).status \in Terminal

C4_Witness ==
    \E w \in Created :
        /\ EntriesOf(w) # {}
        /\ appended[w] = <<"error">>
        /\ Row(w).status = "failed"
        /\ \E v \in Created : Row(v).status = "in_progress"

TrackerFailures == {"notReady", "toolsThrew", "toolNotFound", "noExecute", "callThrew"}

\* C5: when the tracker post of a completed workflow fails (provider never
\* ready, no comment tool, tool not executable, getAITools or the comment
\* call throwing), the run ends, the row stays completed with its results and
\* no error, and no error entry is appended.
C5_TrackerFailureSwallowed ==
    \A w \in Created :
        tracker[w] \in TrackerFailures
            => /\ Frame(w).pc = "done"
               /\ Row(w).task_id \notin {NULL, ""}
               /\ Row(w).status = "completed"
               /\ Row(w).results # NULL
               /\ Row(w).error = NULL
               /\ appended[w] = <<"results">>
               /\ \A k \in EntriesOf(w) : ~messages[k].isError

C5_Witness ==
    \E w, v \in Created :
        /\ tracker[w] = "callThrew"
        /\ tracker[v] = "notReady"
        /\ Row(w).status = "completed"
        /\ Row(v).status = "completed"

\* C6: when executeResearch is invoked for a workflow that is already
\* completed or failed, it returns without running: the row is left as it is
\* and the run is over at once.
C6_NoRerunWhenTerminal ==
    [][\A w \in Created :
          (delivered'[w] = delivered[w] + 1 /\ Row(w).status \in Terminal)
              => workflows'[w] = Row(w) /\ run'[w].pc \in Finished]_vars

C8_EmptyRegistryFails ==
    \A w \in Created :
        (polls[w].polled /\ polls[w].allEmpty)
            => \/ /\ Frame(w).pc = "retryDelay"
                  /\ Frame(w).i + 1 < MAX_RETRIES
               \/ /\ Frame(w).pc \in {"saveError", "done", "rejected"}
                  /\ Row(w).status = "failed"
                  /\ Row(w).error = "No MCP servers available"

C8_Witness ==
    \E w \in Created :
        /\ polls[w].polled
        /\ polls[w].allEmpty
        /\ Frame(w).pc = "done"
        /\ Row(w).status = "failed"

\* C9: a workflow id has exactly one scheduled execution if its row exists
\* and none otherwise; a row not yet picked up is pending with null results
\* and error; no run exists for an id without a row, and no run fails to
\* find its row.
C9_CreateThenScheduleOnce ==
    \A w \in WorkflowIds :
        /\ scheduled[w] = (IF w \in Created THEN 1 ELSE 0)
        /\ delivered[w] <= scheduled[w]
        /\ Frame(w).pc # "notFound"
        /\ w \notin Created => Frame(w).pc = "idle"
        /\ (w \in Created /\ delivered[w] = 0)
               => /\ Row(w).status = "pending"
                  /\ Row(w).results = NULL
                  /\ Row(w).error = NULL
                  /\ Frame(w).pc = "idle"

C9_Witness ==
    \E w, v \in Created :
        /\ delivered[w] = 0
        /\ Row(w).status = "pending"
        /\ delivered[v] = 1
        /\ Frame(v).pc = "ensureJsonSchema"
        /\ Row(v).status = "in_progress"

\* C10 as claimed: once a run has ended, the comment call was made exactly
\* once if the workflow is completed with an externalTaskId, and not at all
\* otherwise.
C10_ExactlyOneComment ==
    \A w \in Created :
        Frame(w).pc \in Finished
            => /\ (Row(w).status = "completed" /\ Row(w).task_id \notin {NULL, ""})
                      => comments[w] = 1
               /\ (Row(w).status = "failed" \/ Row(w).task_id = NULL)
                      => comments[w] = 0

\* C10 as amended: the comment call is made at most once for a workflow, and
\* only for a workflow that is completed and has a non-empty externalTaskId;
\* it is never made for a workflow that is failed or has no externalTaskId.
C10_AtMostOneComment ==
    \A w \in WorkflowIds :
        /\ comments[w] <= 1
        /\ comments[w] = 1
               => /\ w \in Created
                  /\ Row(w).status = "completed"
                  /\ Row(w).task_id \notin {NULL, ""}

C10_Witness ==
    \E w, v \in Created :
        /\ comments[w] = 1
        /\ tracker[w] = "posted"
        /\ Frame(v).pc = "done"
        /\ Row(v).status = "completed"
        /\ Row(v).task_id = "ABC-123"
        /\ comments[v] = 0

\* C15: decomposeQuestion(q, depth) returns exactly 2, 4 and 6 sub-questions
\* for quick, medium and thorough, every one of them containing q verbatim;
\* the quick list is a prefix of the medium list and the medium list a prefix
\* of the thorough list.
C15_Decomposition ==
    (call.fn = "decomposeQuestion" /\ call.returned) =>
        LET q == call.args[1]
            depth == call.args[2]
            quick == decomposeQuestion(q, "quick")
            medium == decomposeQuestion(q, "medium")
            thorough == decomposeQuestion(q, "thorough")
        IN /\ Len(call.result) = CASE depth = "quick" -> 2
                                   [] depth = "medium" -> 4
                                   [] depth = "thorough" -> 6
           /\ \A k \in 1..Len(call.result) : Contains(call.result[k], q)
           /\ IsPrefix(quick, medium) /\ Len(quick) < Len(medium)
           /\ IsPrefix(medium, thorough) /\ Len(medium) < Len(thorough)

C15_Witness ==
    /\ call.fn = "decomposeQuestion" /\ call.returned
    /\ call.args = << <<"How is ", "auth", " handled">>, "thorough" >>
    /\ Len(call.result) = 6
    /\ call.result[6] =
           <<"Are there any related issues or TODOs for: ",
             "How is ", "auth", " handled", "?">>

\* lowercased and stripped of its punctuation, the word survives the filter
Survives(word) ==
    LET token == stripPunctuation(toLowerCase(word)) IN
    Len(token) > 2 /\ token \notin stopWords

\* C16: extractKeywords returns at most 5 tokens, none of length 2 or less
\* and none a stop word, and they are the first 5 surviving tokens of the
\* lowercased, punctuation-stripped text, in their original order.
C16_Keywords ==
    (call.fn = "extractKeywords" /\ call.returned) =>
        LET words == call.args[1]
            survivors == SelectSeq(words, Survives)
            expected == [k \in 1..Min(5, Len(survivors)) |->
                            stripPunctuation(toLowerCase(survivors[k]))]
        IN /\ Len(call.result) <= 5
           /\ \A k \in 1..Len(call.result) :
                  /\ Len(call.result[k]) > 2
                  /\ call.result[k] \notin stopWords
           /\ Len(call.result) = Len(expected)
           /\ \A k \in 1..Len(expected) : call.result[k] = expected[k]

C16_Witness ==
    /\ call.fn = "extractKeywords" /\ call.returned
    /\ Len(call.args[1]) = 6
    /\ \A k \in 1..6 : Survives(call.args[1][k])
    /\ call.args[1][1] # call.args[1][2]
    /\ call.result = <<<<"j", "w", "t">>, <<"a", "u", "t", "h">>,
                       <<"a", "u", "t", "h">>, <<"j", "w", "t">>,
                       <<"j", "w", "t">>>>

\* C18: the output of synthesizeResearch starts with the header line, which
\* contains the question; it contains a "Relevant Files" section exactly when
\* the union of the explorations' files is not empty; for an empty list of
\* explorations it is the header alone.
C18_Synthesis ==
    (call.fn = "synthesizeResearch" /\ call.returned) =>
        LET question == call.args[1]
            explorations == call.args[2]
            header == <<"# Research Results: ">> \o question \o <<"\n\n">>
            union == UNION {{explorations[k].files[n] :
                                n \in 1..Len(explorations[k].files)} :
                            k \in {j \in 1..Len(explorations) :
                                      "files" \in DOMAIN explorations[j]}}
        IN /\ IsPrefix(header, call.result)
           /\ Contains(header, question)
           /\ Contains(call.result, <<"\n\n## Relevant Files\n">>) <=> union # {}
           /\ explorations = <<>> => call.result = header

C18_Witness ==
    /\ call.fn = "synthesizeResearch" /\ call.returned
    /\ Len(call.args[2]) = 2
    /\ "files" \notin DOMAIN call.args[2][1]
    /\ "files" \in DOMAIN call.args[2][2]
    /\ call.args[2][2].files = <<"src/auth.ts", "src/login.ts">>
    /\ Contains(call.result,
                <<"\n\n## Relevant Files\n", "- ", "src/auth.ts", "\n",
                  "- ", "src/login.ts">>)

InsufficientError(fullResponse) ==
    "Research produced insufficient results: " \o fullResponse

\* C13: a workflow is completed only with a result text of at least 50
\* characters; an empty text or one shorter than 50 ends the run failed with
\* the insufficient-results error and results null; a text of exactly 50
\* characters is accepted.
C13_MinimumResultLength ==
    \A w \in Created :
        /\ Row(w).status = "completed"
               => Row(w).results \in Responses /\ Length(Row(w).results) >= 50
        /\ Row(w).results # NULL => Length(Row(w).results) >= 50
        /\ \A fullResponse \in Responses :
               /\ Row(w).error = InsufficientError(fullResponse)
                      => /\ Length(fullResponse) < 50
                         /\ Row(w).status = "failed"
                         /\ Row(w).results = NULL
               /\ Length(fullResponse) >= 50
                      => Row(w).error # InsufficientError(fullResponse)

C13_Witness ==
    \E w, v \in Created :
        /\ Row(w).status = "completed" /\ Row(w).results = "text50"
        /\ Row(v).status = "failed" /\ Row(v).results = NULL
        /\ Row(v).error = InsufficientError("text49")

\* C14: once a workflow record is created no operation changes its id,
\* repository, question, depth or task_id, and none deletes the record:
\* executeResearch and updateWorkflow write status, results and error only.
C14_ImmutableFields ==
    [][\A w \in Created :
          /\ w \in DOMAIN workflows'
          /\ \A field \in {"id", "repository", "question", "depth", "task_id"} :
                 workflows'[w][field] = Row(w)[field]]_vars

C14_Witness ==
    \E w, v \in Created :
        /\ w # v
        /\ Row(w).id = w /\ Row(w).task_id = "ABC-123"
        /\ Row(w).status = "completed" /\ Row(w).results # NULL
        /\ Row(v).id = v /\ Row(v).task_id = NULL
        /\ Row(v).status = "failed" /\ Row(v).error # NULL

\* C12: when every exploration of a research run returned success=false the
\* run ends failed with the all-explorations-failed message, the synthesizer
\* has not been invoked and the run carries no results.
C12_AllExplorationsFailed ==
    /\ tool.pc \in {"waiting", "exploring"} => tool.synthesized = 0
    /\ (/\ tool.pc = "returned"
        /\ tool.mcpReady
        /\ \A k \in 1..Len(tool.units) : ~tool.units[k].result.success)
           => /\ tool.result = AllFailed
              /\ ~tool.result.success
              /\ "synthesis" \notin DOMAIN tool.result
              /\ tool.synthesized = 0

C12_Witness ==
    /\ tool.pc = "returned"
    /\ tool.tools = "searchAndRead"
    /\ Len(tool.units) = 2
    /\ \A k \in 1..2 :
           tool.units[k].result =
               ExplorationFailed(tool.units[k].subQuestion, SearchError)
    /\ tool.result = AllFailed

\* C17: when the search of an exploration returned zero items the
\* exploration returns success=true, files=[] and the summary "No relevant
\* files found in {repository} for: {subQuestion}", and no read was launched.
C17_NoItemsNoReads ==
    \A k \in 1..Len(tool.units) :
        LET unit == tool.units[k] IN
        (unit.searchResults.kind = "items" /\ Len(unit.searchResults.items) = 0)
            => /\ unit.pc = "done"
               /\ unit.result.success
               /\ unit.result.files = <<>>
               /\ unit.result.summary =
                      <<"No relevant files found in ", tool.repository, " for: ">>
                          \o unit.subQuestion
               /\ Len(unit.reads) = 0

C17_Witness ==
    /\ Len(tool.units) = 2
    /\ tool.units[1].searchResults = [kind |-> "items", items |-> <<>>]
    /\ tool.units[1].pc = "done"
    /\ tool.units[1].result.summary =
           <<"No relevant files found in ", "owner/repo", " for: ",
             "What files and directories are most relevant to: ",
             "How is auth handled", "?">>
    /\ tool.units[2].pc = "reading"
    /\ Len(tool.units[2].reads) = 3

\* the reasons the readiness loop of executeResearch throws with
GateErrors ==
    {"No MCP servers available", "GitHub MCP server not connected",
     "Failed to get MCP tools"}
    \cup {"GitHub MCP server not ready after 30 attempts. Current state: " \o state : state \in ServerStates}

\* C19: a readiness gate whose budget is exhausted reports it through the
\* value it returns and raises no exception: neither the loop of
\* executeResearch nor that of researchRepository.execute throws.
C19_GateNeverRaises ==
    /\ \A w \in WorkflowIds : polls[w].exit # "throw"
    /\ tool.pc # "rejected"

\* C19, amended: the loop of executeResearch raises an error carrying the
\* reason, which the catch block of executeResearch turns into status failed
\* with that reason; the loops of postResearchToLinear and of
\* researchRepository.execute do not raise: the first returns without
\* posting, the second returns the value {success: false, error}.
C19_GateExhaustion ==
    /\ \A w \in WorkflowIds :
           /\ polls[w].exit = "throw"
                  => /\ w \in Created
                     /\ Row(w).status = "failed"
                     /\ Row(w).error \in GateErrors
                     /\ Frame(w).pc \in {"saveError", "done", "rejected"}
           /\ tracker[w] = "notReady"
                  => /\ Row(w).status = "completed"
                     /\ comments[w] = 0
                     /\ Frame(w).pc = "done"
    /\ tool.pc # "rejected"
    /\ (tool.pc = "returned" /\ ~tool.mcpReady)
           => /\ tool.result = NotAvailable
              /\ tool.elapsed >= MAX_WAIT_MS
              /\ tool.units = <<>>

C19_Witness ==
    \E w, v \in Created :
        /\ polls[w].exit = "throw"
        /\ Row(w).error = "GitHub MCP server not ready after 30 attempts. Current state: connecting"
        /\ Row(w).status = "failed"
        /\ tracker[v] = "notReady"
        /\ Frame(v).pc = "done"

\* C20: the readiness gate succeeds as soon as a poll observes at least one
\* server in state ready, whatever its name: a gate never gives up on a poll
\* that found a server ready.
C20_AnyReadyPasses ==
    /\ \A w \in WorkflowIds : polls[w].exit = "throw" => ~polls[w].anyReady
    /\ tool.pc \in {"waiting", "returned"} /\ ~tool.mcpReady => tool.ready = {}

\* C20, amended: the gate of researchRepository.execute succeeds as soon as a
\* poll finds a server ready, whatever its name, and gives up only on polls
\* that found none; the gate of executeResearch succeeds only on a poll that
\* finds the server named GitHub ready (and getAITools not throwing): a ready
\* server of another name does not let the run proceed.
C20_GateModes ==
    /\ tool.pc \in {"waiting", "returned"} /\ ~tool.mcpReady => tool.ready = {}
    /\ tool.pc = "exploring" => tool.mcpReady /\ tool.ready # {}
    /\ tool.mcpReady <=> tool.ready # {}
    /\ \A w \in WorkflowIds :
           /\ polls[w].exit = "break" => polls[w].github = "ready"
           /\ Frame(w).pc = "streamText"
                  => polls[w].exit = "break" /\ polls[w].github = "ready"
           /\ (polls[w].exit = "throw" /\ polls[w].github = "ready")
                  => Row(w).error = "Failed to get MCP tools"

C20_Witness ==
    /\ tool.pc = "exploring"
    /\ tool.ready = {"Linear"}
    /\ Len(tool.units) = 2

\* C21: postResearchToLinear looks the comment tool up, and calls it, only
\* after a poll, among at most 15, found the server named Linear ready; when
\* that server is absent or never ready within the budget the function
\* returns without a comment call and without raising.
C21_TrackerOnlyWhenLinearReady ==
    \A w \in WorkflowIds :
        /\ (comments[w] > 0 \/ tracker[w] \in (TrackerFailures \ {"notReady"})
                \/ tracker[w] \in {"calling", "posted"})
               => polls[w].linear = "ready"
        /\ polls[w].linear \notin {"none", "ready"}
               => /\ tracker[w] = "notReady"
                  /\ comments[w] = 0
                  /\ Frame(w).pc = "done"
                  /\ w \in Created /\ Row(w).status = "completed"
        /\ Frame(w).pc = "linearRetryDelay"
               => /\ Frame(w).li <= LINEAR_MAX_RETRIES - 2
                  /\ comments[w] = 0
                  /\ polls[w].linear = "none"

C21_Witness ==
    \E w, v \in Created :
        /\ tracker[w] = "notReady" /\ polls[w].linear = "absent"
        /\ comments[w] = 0 /\ Frame(w).pc = "done"
        /\ tracker[v] = "posted" /\ polls[v].linear = "ready"
        /\ comments[v] = 1

\* C22: the reason the timed-out readiness loop of executeResearch reports
\* tells three cases apart: no server registered at all, the server named
\* GitHub not among the registered ones, and that server present but not
\* ready, with the state last observed.
C22_TimeoutReasons ==
    \A w \in Created :
        polls[w].exit = "throw" =>
            /\ polls[w].empty
                   => Row(w).error = "No MCP servers available"
            /\ (~polls[w].empty /\ polls[w].github = "absent")
                   => Row(w).error = "GitHub MCP server not connected"
            /\ polls[w].github \in (ServerStates \ {"ready"})
                   => Row(w).error =
                          "GitHub MCP server not ready after 30 attempts. Current state: " \o polls[w].github

C22_Witness ==
    \E w, v \in Created :
        /\ polls[w].exit = "throw" /\ ~polls[w].empty
        /\ Row(w).error = "GitHub MCP server not connected"
        /\ polls[v].exit = "throw" /\ polls[v].github = "failed"
        /\ Row(v).error = "GitHub MCP server not ready after 30 attempts. Current state: failed"

\* C23 as stated: both readiness loops end within their budget: the loop of
\* executeResearch polls at most 30 times and that of postResearchToLinear at
\* most 15; a sleep comes only between two polls, never after the last one;
\* and no loop sleeps and polls again once a poll found its server ready.
C23_NoPollAfterReady ==
    \A w \in WorkflowIds :
        /\ Frame(w).pc = "retryDelay"
               => /\ Frame(w).i <= MAX_RETRIES - 2
                  /\ polls[w].tools = "none"
        /\ Frame(w).pc = "linearRetryDelay"
               => /\ Frame(w).li <= LINEAR_MAX_RETRIES - 2
                  /\ polls[w].linear = "none"

\* C23 amended: both loops end within their budget and sleep only between
\* two polls; the loop of postResearchToLinear never polls again once it
\* found Linear ready; the loop of executeResearch never polls again once it
\* found GitHub ready and obtained the tool set, and it does sleep and poll
\* again, within its budget, when GitHub was ready and getAITools() threw.
C23_LoopsWithinBudget ==
    [][\A w \in WorkflowIds :
          /\ (run'[w] # run[w] /\ run'[w].pc = "retryDelay")
                 => /\ Frame(w).pc \in {"ensureJsonSchema", "retryDelay"}
                    /\ run'[w].i = IF Frame(w).pc = "retryDelay"
                                   THEN Frame(w).i + 1 ELSE 0
                    /\ run'[w].i <= MAX_RETRIES - 2
                    /\ polls'[w].tools \in {"none", "threw"}
          /\ (run'[w] # run[w] /\ run'[w].pc = "linearRetryDelay")
                 => /\ Frame(w).pc \in {"saveResults", "linearRetryDelay"}
                    /\ run'[w].li = IF Frame(w).pc = "linearRetryDelay"
                                    THEN Frame(w).li + 1 ELSE 0
                    /\ run'[w].li <= LINEAR_MAX_RETRIES - 2
          /\ (polls[w].exit # "none" \/ polls[w].tools = "obtained")
                 => run'[w].pc \notin {"ensureJsonSchema", "retryDelay"}
          /\ polls[w].linear # "none"
                 => run'[w].pc # "linearRetryDelay"]_vars

C23_Witness ==
    \E w, v \in WorkflowIds :
        /\ Frame(w).pc = "retryDelay" /\ Frame(w).i = MAX_RETRIES - 2
        /\ polls[w].tools = "threw"
        /\ Frame(v).pc = "linearRetryDelay"
        /\ Frame(v).li = LINEAR_MAX_RETRIES - 2

\* C27: a run of executeResearch for one workflow never changes the record
\* of another: in every interleaving a record changes only in a step of the
\* run of its own workflow.
C27_OtherRecordsUntouched ==
    [][\A b \in Created :
          workflows'[b] # Row(b) => run'[b] # run[b]]_vars

C27_Witness ==
    \E a, b \in Created :
        /\ Frame(a).pc = "done" /\ Row(a).status = "completed"
        /\ Frame(b).pc = "retryDelay" /\ Row(b).status = "in_progress"
        /\ Row(b).results = NULL /\ Row(b).error = NULL

\* C28: executeResearch makes the completion call only after a poll found
\* the server named GitHub ready and getAITools() returned in that same
\* iteration; the loop is left by that success or by a thrown error, never by
\* falling through to the completion call.
C28_CompletionOnlyAfterReady ==
    \A w \in WorkflowIds :
        /\ (Frame(w).pc \in {"streamText", "saveResults"}
                \/ (w \in Created /\ Row(w).results # NULL))
               => /\ polls[w].exit = "break"
                  /\ polls[w].github = "ready"
                  /\ polls[w].tools = "obtained"
        /\ polls[w].exit = "throw"
               => /\ polls[w].tools # "obtained"
                  /\ Frame(w).pc \in {"saveError", "done", "rejected"}
                  /\ Row(w).status = "failed" /\ Row(w).results = NULL

C28_Witness ==
    \E w, v \in Created :
        /\ Frame(w).pc = "streamText" /\ polls[w].tools = "obtained"
        /\ polls[v].exit = "throw" /\ polls[v].tools = "threw"
        /\ Row(v).error = "Failed to get MCP tools"

\* C29: the tracker comment call of a workflow comes after its completed
\* status was written and after its results entry was appended to the
\* transcript; when that append throws, no tracker comment is posted.
C29_CommentAfterResultsEntry ==
    \A w \in WorkflowIds :
        /\ (comments[w] > 0 \/ tracker[w] # "none")
               => /\ w \in Created
                  /\ Row(w).status = "completed"
                  /\ Row(w).results # NULL
                  /\ appended[w] = <<"results">>
        /\ (w \in Created /\ Row(w).error = "saveMessages failed")
               => comments[w] = 0 /\ tracker[w] = "none"

C29_Witness ==
    \E w, v \in Created :
        /\ Row(w).error = "saveMessages failed" /\ Row(w).task_id = "ABC-123"
        /\ comments[w] = 0
        /\ tracker[v] = "calling" /\ comments[v] = 1
        /\ appended[v] = <<"results">>

\* C24: the synthesizer is invoked, once, only after every exploration the
\* run launched has returned, whatever the order they finish in and also when
\* one failed while another was still running; what it is given is exactly
\* the launched explorations that returned success=true.
C24_SynthesisAfterAllExplorations ==
    LET successful == {k \in 1..Len(tool.units) :
                          /\ tool.units[k].pc = "done"
                          /\ tool.units[k].result.success} IN
    /\ tool.synthesized <= 1
    /\ tool.pc \in {"waiting", "exploring"} => tool.synthesized = 0
    /\ tool.synthesized > 0
           => /\ \A k \in 1..Len(tool.units) : tool.units[k].pc = "done"
              /\ Len(tool.finished) = Len(tool.units)
              /\ {tool.result.explorations[j] :
                      j \in 1..Len(tool.result.explorations)}
                     = {tool.units[k].result : k \in successful}
              /\ Len(tool.result.explorations) = Cardinality(successful)
              /\ tool.result.metadata.successfulCount = Cardinality(successful)

C24_Witness ==
    /\ tool.synthesized = 1
    /\ tool.depth = "quick"
    /\ tool.finished = <<1, 2>>
    /\ tool.units[1].result =
           ExplorationFailed(tool.units[1].subQuestion, SearchError)
    /\ tool.units[2].result.success
    /\ Len(tool.units[2].reads) = 3
    /\ Len(tool.result.explorations) = 1

\* C25: exploreSubQuestion never lets an exception out: a tool set that
\* cannot be obtained, a missing or non-executable search tool, a search call
\* that throws and a search result that cannot be read each give a result with
\* success=false and the text of the error; an exploration that failed does
\* not end the run while another is still running.
C25_ExplorationNeverRaises ==
    /\ tool.pc # "rejected"
    /\ (tool.pc = "returned" /\ "error" \in DOMAIN tool.result)
           => tool.result.error \in {NotAvailable.error, AllFailed.error}
    /\ \A k \in 1..Len(tool.units) :
           LET unit == tool.units[k] IN
           /\ unit.pc = "done" =>
                  /\ "success" \in DOMAIN unit.result
                  /\ tool.tools = "throws"
                         => /\ ~unit.result.success
                            /\ unit.result.error = GetToolsError
                  /\ tool.tools = "noSearch"
                         => /\ ~unit.result.success
                            /\ unit.result.error = "search_code tool not found"
                  /\ tool.tools = "searchNoExecute"
                         => /\ ~unit.result.success
                            /\ unit.result.error =
                                   "search_code tool has no execute function"
                  /\ (/\ tool.tools \in {"searchOnly", "searchAndRead",
                                         "readNoExecute"}
                      /\ unit.searchResults.kind = "none")
                         => /\ ~unit.result.success
                            /\ unit.result.error = SearchError
                            /\ unit.result.summary =
                                   <<"Failed to explore: ", SearchError>>
                  /\ unit.searchResults.kind = "itemsNotArray"
                         => /\ ~unit.result.success
                            /\ unit.result.error = ItemsError
                  /\ ~unit.result.success
                         => /\ "error" \in DOMAIN unit.result
                            /\ "files" \notin DOMAIN unit.result
                            /\ unit.result.subQuestion = unit.subQuestion
           /\ (unit.pc \in {"search", "reading"} /\ tool.mcpReady)
                  => tool.pc = "exploring"

C25_Witness ==
    /\ tool.pc = "exploring"
    /\ tool.depth = "quick"
    /\ tool.units[1].pc = "done"
    /\ tool.units[1].result =
           ExplorationFailed(tool.units[1].subQuestion, ItemsError)
    /\ tool.units[2].pc = "reading"

\* C26: an exploration launches at most 3 reads, for the first 3 paths
\* found, and builds its summary only once every read has settled; a read
\* that throws is dropped, and the exploration returns success=true with all
\* the paths found, at most 10, as files, whichever reads failed.
C26_ReadsBounded ==
    \A k \in 1..Len(tool.units) :
        LET unit == tool.units[k]
            reads == [n \in 1..Len(unit.reads) |->
                         [path |-> unit.filePaths[n],
                          state |-> unit.reads[n].state,
                          content |-> unit.reads[n].content]]
            kept == SelectSeq(reads, LAMBDA read : read.state # "null")
            fileContents == [n \in 1..Len(kept) |->
                                [path |-> kept[n].path,
                                 content |-> kept[n].content]]
        IN /\ Len(unit.reads) <= 3
           /\ Len(unit.reads) <= Len(unit.filePaths)
           /\ unit.reads # <<>>
                  => /\ Len(unit.reads) = Min(3, Len(unit.filePaths))
                     /\ unit.filePaths = extractFilesList(unit.searchResults)
           /\ unit.pc = "reading"
                  => \E n \in 1..Len(unit.reads) :
                         unit.reads[n].state = "pending"
           /\ (unit.pc = "done" /\ unit.filePaths # <<>>)
                  => /\ \A n \in 1..Len(unit.reads) :
                            unit.reads[n].state \in {"resolved", "null"}
                     /\ unit.result.success
                     /\ "error" \notin DOMAIN unit.result
                     /\ unit.result.files = unit.filePaths
                     /\ Len(unit.result.files) <= 10
                     /\ unit.result.summary =
                            summarizeWithContent(unit.subQuestion,
                                                 unit.filePaths, fileContents)

C26_Witness ==
    \E k \in 1..Len(tool.units) :
        /\ tool.tools = "searchAndRead"
        /\ tool.units[k].pc = "done"
        /\ Len(tool.units[k].filePaths) = 10
        /\ Len(tool.units[k].reads) = 3
        /\ [n \in 1..3 |-> tool.units[k].reads[n].state]
               = <<"null", "resolved", "null">>
        /\ tool.units[k].result.success
        /\ Len(tool.units[k].result.files) = 10

\* C30: the sections of the synthesized document come in the order of the
\* decomposed sub-questions whatever the order the explorations finished in,
\* and the explorations left once the failed ones are removed keep their
\* relative order.
C30_SectionsInDecompositionOrder ==
    (tool.pc = "returned" /\ tool.synthesized > 0) =>
        LET subQuestions == decomposeQuestion(tool.question, tool.depth)
            results == [k \in 1..Len(tool.units) |-> tool.units[k].result]
            ordered == SelectSeq(results, LAMBDA result : result.success)
            sections == [k \in 1..Len(ordered) |->
                            <<"**">> \o ordered[k].subQuestion \o <<"**\n">>
                                \o ordered[k].summary]
        IN /\ \A k \in 1..Len(tool.units) :
                  tool.units[k].subQuestion = subQuestions[k]
           /\ tool.result.explorations = ordered
           /\ IsPrefix(<<"# Research Results: ">> \o tool.question
                           \o <<"\n\n">> \o join(sections, <<"\n\n">>),
                       tool.result.synthesis)

C30_Witness ==
    /\ tool.pc = "returned"
    /\ tool.depth = "medium"
    /\ tool.finished = <<4, 2, 3, 1>>
    /\ tool.units[2].result =
           ExplorationFailed(tool.units[2].subQuestion, SearchError)
    /\ Len(tool.result.explorations) = 3

====
